---- MODULE Spec2Model ----
(***************************************************************************)
(* Gesture decision pipeline of the repository:                            *)
(*   - the foreground detector  detectGesture        (gestureRecognition   *)
(*     part of src/src/utils/aiEnhancement.js),                            *)
(*   - the background detector  BackgroundGestureService.detectOnce /      *)
(*     detectGesture            (src/public/audio-processors.js),          *)
(*   - the arbitration gateway  processAmbiguousGesture                    *)
(*     (src/src/utils/aiEnhancement.js),                                   *)
(*   - the detection effect of the GestureDetector component               *)
(*     (src/src/components/GestureDetector.js),                            *)
(*   - the server's handler of POST /api/ai/process-gesture                *)
(*     (src/unnamed/part_000),                                             *)
(*   - voice authentication     authenticateVoice                          *)
(*     (src/src/utils/aiEnhancement.js).                                   *)
(*                                                                         *)
(* Numbers.  Gesture scores are kept in tenths (80 is 8.0).  Confidence    *)
(* thresholds are kept in units of 1/ThrUnit, ThrUnit a power of ten large *)
(* enough that the smoothing  c * 0.9 + a * 0.1  is exact for every frame  *)
(* the model processes.  Times are milliseconds.                           *)
(*                                                                         *)
(* One run exercises one component; the variable  session  says which.     *)
(***************************************************************************)
EXTENDS Integers, Sequences, FiniteSets, TLC

VARIABLES
    session,                  \* which component this run exercises
    clock,                    \* the last value Date.now() returned
    frames,                   \* number of detection calls started so far
    \* ---- module-level globals of the foreground detector
    lastGesture,
    lastGestureTime,
    gestureSequence,
    gestureConfidenceHistory,
    gestureCounters,
    gestureWindowStart,
    adaptiveThreshold,
    previousHandPosition,
    handVelocity,
    \* ---- the BackgroundGestureService instance (its fields) and its calls
    service,
    calls,                    \* detectOnce invocations in flight
    \* ---- the arbitration gateway
    openai,                   \* the module-level client: Null or "client"
    arb,                      \* the processAmbiguousGesture invocation
    \* ---- the GestureDetector component's detection effect
    detector,
    \* ---- the server's POST /api/ai/process-gesture handler
    server,
    \* ---- one application of the stability resolver to given histories
    resolver,
    \* ---- voice authentication: isAuthenticating and the authenticateVoice calls
    voice,
    \* ---- observation (what an outside observer of the run has seen)
    log,                      \* one record per processed frame
    emissions,                \* the emission steps, in the order they happened
    sequenceActions,          \* combo actions checkGestureSequence reported
    arbitrationCalls          \* calls detectGesture made to the gateway

vars == <<session, clock, frames, lastGesture, lastGestureTime, gestureSequence,
          gestureConfidenceHistory, gestureCounters, gestureWindowStart,
          adaptiveThreshold, previousHandPosition, handVelocity, service, calls,
          openai, arb, detector, server, resolver, voice, log, emissions,
          sequenceActions, arbitrationCalls>>

fgVars == <<lastGesture, lastGestureTime, gestureSequence,
            gestureConfidenceHistory, gestureCounters, gestureWindowStart,
            adaptiveThreshold, previousHandPosition, handVelocity,
            arbitrationCalls>>

bgVars == <<service, calls>>

arbVars == <<openai, arb>>

cmpVars == <<detector, server, resolver, voice>>

Null == "null"

\* a position variable holds <<>> for null, else <<position>>
NoPosition == <<>>

-----------------------------------------------------------------------------
(* Bounds of the model *)

\* detectGesture calls per run of the foreground detector
MaxFrames == 4

\* detectOnce invocations per run of the background service
MaxBgCalls == 2

\* detectOnce invocations that may be in flight together
MaxInFlight == 2

\* candidates submitted to the arbitration gateway
MaxCandidates == 3

\* sessions of the background service: calls of start() that go through
MaxSessions == 2

\* samples a gesture's confidence history holds before the resolver is applied
MaxSamples == 3

\* detection calls per run of a detector in the runs that fill the sequence
\* window
MaxLongFrames == 7

\* calls of authenticateVoice per run
MaxAuthCalls == 4

-----------------------------------------------------------------------------
(* Units and inputs *)

ThrUnit == 10 ^ (MaxFrames + 1)

\* a score in tenths, as a threshold value
ScoreAsThr(s) == s * (ThrUnit \div 10)

\* Date.now() at the first call; the globals' initial timestamps are 0
StartTimes == {10000}

\* time between two detection calls
Deltas == {150, 350}

\* palm-base landmark positions (landmarks[0][0], landmarks[0][1]): PosMid is
\* 10 px from PosStill, PosFar 30 px from PosStill and more than 20 px from PosMid
PosStill == [x |-> 0, y |-> 0]
PosMid == [x |-> 6, y |-> 8]
PosFar == [x |-> 30, y |-> 0]

\* registration order of the gestures in the foreground estimator
FgGestureOrder ==
    <<"thumbs_up", "palm", "pinch", "point_up", "point_down",
      "thumbs_down", "victory", "fist", "swipe_left", "swipe_right">>

\* registration order of the gestures in the background estimator
BgGestureOrder == <<"thumbs_up", "palm", "pinch", "pointing_up", "pointing_down">>

\* raw scores (tenths) of the template scorer for one frame: gesture -> score
RawLow == [g \in {"thumbs_up"} |-> 50]
RawTie == [g \in {"thumbs_up", "thumbs_down"} |-> IF g = "thumbs_up" THEN 80 ELSE 79]
RawDown == [g \in {"thumbs_up", "thumbs_down"} |-> IF g = "thumbs_up" THEN 76 ELSE 80]
RawHigh == [g \in {"thumbs_down"} |-> 95]
RawBgUp == [g \in {"thumbs_up", "palm"} |-> IF g = "thumbs_up" THEN 95 ELSE 90]
RawBgPalm == [g \in {"palm"} |-> 95]
RawNone == [g \in {} |-> 0]

Frame(hand, pos, raw) == [hand |-> hand, pos |-> pos, raw |-> raw]

-----------------------------------------------------------------------------
(* Helpers shared by both detectors *)

\* Array.prototype.shift on an over-long array
Shift(s) == SubSeq(s, 2, Len(s))

\* a push that never evicts
PushCapped_unbounded(s, e, cap) == Append(s, e)

\* push, then shift while longer than cap
PushCapped(s, e, cap) ==
    IF Len(s) + 1 > cap THEN Shift(Append(s, e)) ELSE Append(s, e)

RECURSIVE InsertDesc(_, _, _)
\* insert index i into idx (indices in descending order of key) after every
\* index whose key is not smaller: equal keys keep their arrival order
InsertDesc(idx, i, keys) ==
    IF idx = <<>> THEN <<i>>
    ELSE IF keys[Head(idx)] >= keys[i] THEN <<Head(idx)>> \o InsertDesc(Tail(idx), i, keys)
    ELSE <<i>> \o idx

RECURSIVE SortIdx(_, _)
\* the indices 1..n in the order a stable descending sort by keys leaves them
SortIdx(n, keys) ==
    IF n = 0 THEN <<>> ELSE InsertDesc(SortIdx(n - 1, keys), n, keys)

\* s in the order idx lists its indices
Permute(s, idx) == [i \in 1..Len(s) |-> s[idx[i]]]

\* Array.prototype.sort((a, b) => key(b) - key(a)) with keys[i] the key of
\* s[i]: stable, descending
SortDesc(s, keys) == Permute(s, SortIdx(Len(s), keys))

RECURSIVE Estimate_all(_, _, _)
\* a scorer that ignores minScore
Estimate_all(order, raw, minScore) ==
    IF order = <<>> THEN <<>>
    ELSE (IF Head(order) \in DOMAIN raw
          THEN << [name |-> Head(order), score |-> raw[Head(order)]] >>
          ELSE <<>>)
         \o Estimate_all(Tail(order), raw, minScore)

RECURSIVE Estimate(_, _, _)
\* gestureEstimator.estimate(landmarks, minScore).gestures: the registered
\* gestures, in registration order, whose score reaches minScore
Estimate(order, raw, minScore) ==
    IF order = <<>> THEN <<>>
    ELSE (IF Head(order) \in DOMAIN raw /\ ScoreAsThr(raw[Head(order)]) >= minScore
          THEN << [name |-> Head(order), score |-> raw[Head(order)]] >>
          ELSE <<>>)
         \o Estimate(Tail(order), raw, minScore)

\* the sort keys of estimated gestures
Scores(gestures) == [i \in 1..Len(gestures) |-> gestures[i].score]

\* calculateHandCenter: the palm base
calculateHandCenter(pos) == [x |-> pos.x, y |-> pos.y]

\* square of Math.sqrt(v.x * v.x + v.y * v.y)
MagnitudeSq(v) == v.x * v.x + v.y * v.y

Clamp(lo, v, hi) == IF v < lo THEN lo ELSE IF v > hi THEN hi ELSE v

-----------------------------------------------------------------------------
(* Foreground detector: detectGesture and its helpers *)

\* the configuration detectGesture reads: nothing ever stores 'gestureConfig',
\* so it is the default record of loadGestureConfig
config == [adaptiveThreshold |-> TRUE, confidenceThreshold |-> ScoreAsThr(80)]

RECURSIVE SumSeq(_)
SumSeq(s) == IF s = <<>> THEN 0 ELSE Head(s) + SumSeq(Tail(s))

\* n * n * variance of the scores (tenths), an integer:
\* variance = sum((score - mean) ** 2) / n  =  (n * sum(score^2) - sum(score)^2) / n^2
VarianceN2(scores) ==
    LET n == Len(scores)
        sq == [i \in 1..n |-> scores[i] * scores[i]]
    IN  n * SumSeq(sq) - SumSeq(scores) * SumSeq(scores)

RECURSIVE FracGT(_, _, _, _)
\* a / b > c / d  for a, c >= 0 and b, d > 0, by the continued fractions
FracGT(a, b, c, d) ==
    LET q1 == a \div b
        q2 == c \div d
        r1 == a % b
        r2 == c % d
    IN  IF q1 # q2 THEN q1 > q2
        ELSE IF r1 = 0 THEN FALSE
        ELSE IF r2 = 0 THEN TRUE
        ELSE FracGT(d, r2, b, r1)

\* p * sqrt(v1) > q * sqrt(v2) + c  for naturals p, q, c > 0, decided exactly
RootExceeds(p, v1, q, v2, c) ==
    LET s1 == p * p * v1
        s2 == q * q * v2
        d == s1 + c * c - s2
        e == 2 * c * p
    IN  /\ s1 > c * c
        /\ d > 0
        /\ FracGT(d, e, e * v1, d)

\* a stability comparison that computes 1 / (stdDev + 0.01) from any history
\* that has a sample
calculateGestureStability_anyLength(secondHist, firstHist) ==
    IF Len(firstHist) = 0 \/ Len(secondHist) = 0 THEN FALSE
    ELSE RootExceeds(20 * Len(secondHist), VarianceN2(firstHist),
                     30 * Len(firstHist), VarianceN2(secondHist),
                     Len(firstHist) * Len(secondHist))

\* calculateGestureStability(name) = 0 with fewer than 3 samples, else
\* 1 / (stdDev + 0.01).  The model keeps the one use the code makes of it:
\*     calculateGestureStability(second) > calculateGestureStability(first) * 1.5
\* With sd = sqrt(VarianceN2) / (10 * n) in score units, for two histories of
\* 3 or more samples this is  sd1 + 0.01 > 1.5 * (sd2 + 0.01), that is
\*     20 * n2 * sqrt(V1) > 30 * n1 * sqrt(V2) + n1 * n2
calculateGestureStability_exceeds(secondHist, firstHist) ==
    LET n1 == Len(firstHist)
        n2 == Len(secondHist)
    IN  IF n2 < 3 THEN FALSE
        ELSE IF n1 < 3 THEN TRUE
        ELSE RootExceeds(20 * n2, VarianceN2(firstHist),
                         30 * n1, VarianceN2(secondHist), n1 * n2)

\* the per-frame threshold without the Math.max / Math.min line
FrameThreshold_unclamped(adaptive, magSq) ==
    IF magSq > 15 * 15 THEN adaptive + ThrUnit
    ELSE IF magSq < 5 * 5 THEN adaptive - ThrUnit \div 2
    ELSE adaptive

\* lines 1240-1257: the threshold handed to the scorer for this frame
FrameThreshold(adaptive, magSq) ==
    IF config.adaptiveThreshold
    THEN LET moved == IF magSq > 15 * 15 THEN adaptive + ThrUnit
                      ELSE IF magSq < 5 * 5 THEN adaptive - ThrUnit \div 2
                      ELSE adaptive
         IN  Clamp(6 * ThrUnit, moved, 9 * ThrUnit)
    ELSE config.confidenceThreshold

\* lines 1268-1270: the stored threshold after a frame that detected gestures
SmoothThreshold(adaptive, confidenceThreshold) ==
    IF adaptive # confidenceThreshold
    THEN (confidenceThreshold * 9 + adaptive * 1) \div 10
    ELSE adaptive

RECURSIVE UpdateHistory(_, _)
\* lines 1276-1289: every detected gesture's score joins its history (last 10)
UpdateHistory(hist, detected) ==
    IF detected = <<>> THEN hist
    ELSE UpdateHistory([hist EXCEPT ![Head(detected).name] =
                            PushCapped(@, Head(detected).score, 10)],
                       Tail(detected))

\* a near-tie band that includes its edge
NearTie_inclusive(first, second) == second.score * 10 >= first.score * 9

\* line 1301: the near-tie band
NearTie(first, second) == second.score * 10 > first.score * 9

\* lines 1293-1296: the three best by score
TopGestures(detected) ==
    SubSeq(SortDesc(detected, Scores(detected)), 1,
           IF Len(detected) < 3 THEN Len(detected) ELSE 3)

\* a ranking that never consults the histories
RankGestures_never(topGestures, hist) == topGestures

\* lines 1299-1314: the ranking after the stability comparison
RankGestures(topGestures, hist) ==
    IF /\ Len(topGestures) >= 2
       /\ NearTie(topGestures[1], topGestures[2])
       /\ calculateGestureStability_exceeds(hist[topGestures[2].name],
                                            hist[topGestures[1].name])
    THEN [topGestures EXCEPT ![1] = topGestures[2], ![2] = topGestures[1]]
    ELSE topGestures

\* lines 1316-1326: the motion branches for swipes assign the name it already has
FinalGesture(gesture, velocity) ==
    IF gesture.name = "swipe_left" /\ velocity.x > 15 THEN "swipe_left"
    ELSE IF gesture.name = "swipe_right" /\ velocity.x < -15 THEN "swipe_right"
    ELSE gesture.name

\* a debouncer that forgets which gesture it is holding
IsNewGesture_always(finalGesture, last) == TRUE

\* line 1329
IsNewGesture(finalGesture, last) == finalGesture # last

\* a dwell test that lets a change through after 100 ms
DwellElapsed_short(now, lastTime) == now - lastTime > 100

\* a dwell test that uses the absence timeout instead of the dwell interval
DwellElapsed_long(now, lastTime) == now - lastTime > 500

\* line 1332
DwellElapsed(now, lastTime) == now - lastTime > 350

\* line 1206
AbsenceElapsed(now, lastTime) == now - lastTime > 500

\* a no-hands branch that forgets where the hand was
AbsentHandPosition_cleared(previous) == NoPosition

\* lines 1204-1215: the no-hands branch returns before the motion code, so
\* previousHandPosition keeps the position of the last frame that showed a hand
AbsentHandPosition(previous) == previous

\* the table of checkGestureSequence, in its order
knownSequences ==
    << [pattern |-> <<"thumbs_up", "thumbs_down">>, action |-> "TOGGLE_APPROVAL"],
       [pattern |-> <<"palm", "fist">>, action |-> "GRAB_OBJECT"],
       [pattern |-> <<"swipe_left", "swipe_right">>, action |-> "SHAKE_GESTURE"],
       [pattern |-> <<"victory", "fist">>, action |-> "SCISSORS_TO_ROCK"],
       [pattern |-> <<"point_up", "point_down">>, action |-> "FLIP_DIRECTION"] >>

\* the first entry of table whose pattern is the tail of the names, else Null
MatchSequence(table, names) ==
    LET hit(i) == /\ Len(table[i].pattern) <= Len(names)
                  /\ SubSeq(names, Len(names) - Len(table[i].pattern) + 1, Len(names))
                        = table[i].pattern
        hits == {i \in 1..Len(table) : hit(i)}
    IN  IF hits = {} THEN Null
        ELSE table[CHOOSE i \in hits : \A j \in hits : i <= j].action

\* checkGestureSequence(sequence)
checkGestureSequence(sequence) ==
    IF Len(sequence) < 2 THEN Null
    ELSE MatchSequence(knownSequences, [i \in 1..Len(sequence) |-> sequence[i].gesture])

FgNames == {FgGestureOrder[i] : i \in 1..Len(FgGestureOrder)}

\* what a foreground run draws from: the time since the previous call and the
\* video frame as the pose model and the template scorer see it.  A hand that
\* stays in place comes at both spacings, a hand that has moved at the
\* detection interval
FgInputs ==
    { [dt |-> d, frame |-> f] :
        d \in Deltas,
        f \in { Frame(FALSE, PosStill, RawNone), Frame(TRUE, PosStill, RawLow),
                Frame(TRUE, PosStill, RawTie), Frame(TRUE, PosStill, RawDown) } }
    \cup
    { [dt |-> 350, frame |-> f] :
        f \in { Frame(TRUE, PosMid, RawTie), Frame(TRUE, PosFar, RawTie),
                Frame(TRUE, PosStill, RawHigh), Frame(TRUE, PosFar, RawHigh) } }

\* the highest raw score of a frame (0 when the scorer has no candidate)
BestRaw(raw) ==
    IF DOMAIN raw = {} THEN 0
    ELSE LET g == CHOOSE a \in DOMAIN raw : \A b \in DOMAIN raw : raw[a] >= raw[b]
         IN  raw[g]

\* detectGesture(videoFrame), one call from Date.now() to its return, for the
\* frame the pose model reports (the handpose model reports at most one hand)
DetectGestureCall(dt, frame) ==
    LET now == clock + dt
        \* lines 1184-1194: the sequence window
        expired == now - gestureWindowStart > 3000 /\ Len(gestureSequence) > 0
        reported == IF expired /\ Len(gestureSequence) > 1
                    THEN checkGestureSequence(gestureSequence) ELSE Null
        seq0 == IF expired THEN <<>> ELSE gestureSequence
        start0 == IF expired THEN now ELSE gestureWindowStart
        \* lines 1222-1237: motion
        currentHandPosition == calculateHandCenter(frame.pos)
        velocity == IF previousHandPosition # NoPosition
                    THEN [x |-> currentHandPosition.x - previousHandPosition[1].x,
                          y |-> currentHandPosition.y - previousHandPosition[1].y]
                    ELSE handVelocity
        magSq == IF previousHandPosition # NoPosition THEN MagnitudeSq(velocity) ELSE 0
        confidenceThreshold == FrameThreshold(adaptiveThreshold, magSq)
        entry == [now |-> now, hand |-> frame.hand, thr |-> 0, best |-> 0,
                  detected |-> 0, resolved |-> Null, nearTie |-> FALSE,
                  swapped |-> FALSE, emitted |-> FALSE, ret |-> Null,
                  lastBefore |-> lastGesture, timeBefore |-> lastGestureTime,
                  adaptiveBefore |-> adaptiveThreshold, magSq |-> 0,
                  candidates |-> <<>>]
    IN
    /\ session = "foreground"
    /\ frames' = frames + 1
    /\ clock' = now
    /\ sequenceActions' = IF reported # Null THEN Append(sequenceActions, reported)
                          ELSE sequenceActions
    /\ arbitrationCalls' = arbitrationCalls
    /\ IF ~frame.hand
       THEN \* lines 1204-1215: no hands
            /\ lastGesture' = IF lastGesture # Null /\ AbsenceElapsed(now, lastGestureTime)
                              THEN Null ELSE lastGesture
            /\ gestureSequence' =
                   IF /\ lastGesture # Null /\ AbsenceElapsed(now, lastGestureTime)
                      /\ Len(seq0) > 0 /\ now - start0 > 1000
                   THEN <<>> ELSE seq0
            /\ gestureWindowStart' = start0
            /\ previousHandPosition' = AbsentHandPosition(previousHandPosition)
            /\ UNCHANGED <<lastGestureTime, gestureConfidenceHistory, gestureCounters,
                           adaptiveThreshold, handVelocity, emissions>>
            /\ log' = Append(log, entry)
       ELSE /\ previousHandPosition' = <<currentHandPosition>>
            /\ handVelocity' = velocity
            /\ \E detected \in {Estimate(FgGestureOrder, frame.raw, confidenceThreshold)} :
               IF detected = <<>>
               THEN \* lines 1262-1264: no gesture detected
                    /\ gestureSequence' = seq0
                    /\ gestureWindowStart' = start0
                    /\ UNCHANGED <<lastGesture, lastGestureTime, gestureConfidenceHistory,
                                   gestureCounters, adaptiveThreshold, emissions>>
                    /\ log' = Append(log, [entry EXCEPT
                                   !.thr = confidenceThreshold,
                                   !.magSq = magSq,
                                   !.best = BestRaw(frame.raw)])
               ELSE \E hist \in {UpdateHistory(gestureConfidenceHistory, detected)},
                       sorted \in {TopGestures(detected)} :
                    \E topGestures \in {RankGestures(sorted, hist)} :
                    LET gesture == topGestures[1]
                        finalGesture == FinalGesture(gesture, velocity)
                        emit == /\ IsNewGesture(finalGesture, lastGesture)
                                /\ DwellElapsed(now, lastGestureTime)
                    IN
                    /\ adaptiveThreshold' =
                           SmoothThreshold(adaptiveThreshold, confidenceThreshold)
                    /\ gestureConfidenceHistory' = hist
                    /\ IF emit
                       THEN \* lines 1333-1356
                            /\ gestureWindowStart' = IF Len(seq0) = 0 THEN now ELSE start0
                            /\ gestureSequence' =
                                   PushCapped(seq0, [gesture |-> finalGesture,
                                                     timestamp |-> now], 5)
                            /\ gestureCounters' =
                                   [gestureCounters EXCEPT ![finalGesture] = @ + 1]
                            /\ lastGesture' = finalGesture
                            /\ lastGestureTime' = now
                            /\ emissions' = Append(emissions,
                                   [name |-> finalGesture, timestamp |-> now,
                                    stale |-> FALSE])
                       ELSE /\ gestureSequence' = seq0
                            /\ gestureWindowStart' = start0
                            /\ UNCHANGED <<gestureCounters, lastGesture,
                                           lastGestureTime, emissions>>
                    /\ log' = Append(log, [entry EXCEPT
                                   !.thr = confidenceThreshold,
                                   !.magSq = magSq,
                                   !.best = BestRaw(frame.raw),
                                   !.detected = Len(detected),
                                   !.candidates = detected,
                                   !.resolved = finalGesture,
                                   !.nearTie = /\ Len(sorted) >= 2
                                               /\ NearTie(sorted[1], sorted[2]),
                                   !.swapped = topGestures[1] # sorted[1],
                                   !.emitted = emit,
                                   !.ret = finalGesture])
    /\ UNCHANGED <<session, service, calls, openai, arb>>
    /\ UNCHANGED cmpVars

\* a call of detectGesture in a run of at most MaxFrames calls
DetectGesture(dt, frame) ==
    /\ frames < MaxFrames
    /\ DetectGestureCall(dt, frame)

-----------------------------------------------------------------------------
(* Background detector: BackgroundGestureService *)

BgNames == {BgGestureOrder[i] : i \in 1..Len(BgGestureOrder)}

\* time between two detectOnce invocations (interval tick, worker ping)
BgDeltas == {200, 500, 600}

BgFrames ==
    { Frame(FALSE, PosStill, RawNone),
      Frame(TRUE, PosStill, RawLow),
      Frame(TRUE, PosStill, RawBgUp), Frame(TRUE, PosFar, RawBgUp),
      Frame(TRUE, PosStill, RawBgPalm) }

\* lines 1021-1033: the threshold handed to the scorer for this frame
BgFrameThreshold(magSq) ==
    LET moved == IF magSq > 20 * 20 THEN 9 * ThrUnit + ThrUnit
                 ELSE IF magSq < 5 * 5 THEN 9 * ThrUnit - ThrUnit \div 2
                 ELSE 9 * ThrUnit
    IN  Clamp((75 * ThrUnit) \div 10, moved, 10 * ThrUnit)

\* the table of BackgroundGestureService.checkGestureSequence
bgKnownSequences ==
    << [pattern |-> <<"thumbs_up", "thumbs_down">>, action |-> "TOGGLE_APPROVAL"],
       [pattern |-> <<"palm", "victory">>, action |-> "SHOW_MENU"],
       [pattern |-> <<"swipe_left", "swipe_right">>, action |-> "SHAKE_ACTION"],
       [pattern |-> <<"pointing_up", "pointing_down">>, action |-> "FLIP_DIRECTION"] >>

\* BackgroundGestureService.checkGestureSequence(): the last two names
bgCheckGestureSequence(sequence) ==
    IF Len(sequence) < 2 THEN Null
    ELSE MatchSequence(bgKnownSequences,
                       <<sequence[Len(sequence) - 1].gesture,
                         sequence[Len(sequence)].gesture>>)

\* a dwell test that compares the distance of the two times
BgDwellElapsed_distance(now, lastTimestamp) ==
    now - lastTimestamp > 500 \/ lastTimestamp - now > 500

\* line 915
BgDwellElapsed(now, lastTimestamp) == now - lastTimestamp > 500

\* line 959
BgAbsenceElapsed(now, lastTimestamp) == now - lastTimestamp > 1000

\* BackgroundGestureService.detectGesture(hand): the service after the call and
\* the value returned (name Null when no gesture reaches the threshold)
BgDetectGesture(svc, frame) ==
    LET currentHandPosition == calculateHandCenter(frame.pos)
        velocity == IF svc.previousHandPosition # NoPosition
                    THEN [x |-> currentHandPosition.x - svc.previousHandPosition[1].x,
                          y |-> currentHandPosition.y - svc.previousHandPosition[1].y]
                    ELSE [x |-> 0, y |-> 0]
        confidenceThreshold == BgFrameThreshold(MagnitudeSq(velocity))
        gestures == Estimate(BgGestureOrder, frame.raw, confidenceThreshold)
        highest == FinalGesture(SortDesc(gestures, Scores(gestures))[1], velocity)
        moved == [svc EXCEPT !.previousHandPosition = <<currentHandPosition>>,
                             !.handVelocity = velocity]
    IN  IF gestures = <<>>
        THEN [svc |-> moved, name |-> Null, confidence |-> 0, gestures |-> <<>>,
              thr |-> confidenceThreshold, magSq |-> MagnitudeSq(velocity)]
        ELSE [svc |-> [moved EXCEPT !.gestureConfidenceHistory[highest] =
                                        PushCapped(@, frame.raw[highest], 5)],
              name |-> highest, confidence |-> frame.raw[highest],
              gestures |-> gestures,
              thr |-> confidenceThreshold, magSq |-> MagnitudeSq(velocity)]

\* detectOnce(), lines 897-901: an interval tick or a worker ping starts an
\* invocation, which reads the clock and then awaits the pose model
DetectOnceTick(dt) ==
    /\ session = "background"
    /\ Len(calls) < MaxInFlight
    /\ service.intervals > 0 \/ service.workerActive
    /\ service.videoElement /\ service.handposeModel /\ service.isRunning
    /\ clock' = clock + dt
    /\ frames' = frames + 1
    /\ calls' = Append(calls, [now |-> clock + dt, pc |-> "estimateHands",
                               name |-> Null, confidence |-> 0,
                               epoch |-> service.epoch])
    /\ UNCHANGED <<session, service, log, emissions, sequenceActions>>
    /\ UNCHANGED fgVars
    /\ UNCHANGED arbVars
    /\ UNCHANGED cmpVars

\* an invocation of detectOnce in a run of at most MaxBgCalls invocations
DetectOnceStart(dt) ==
    /\ frames < MaxBgCalls
    /\ DetectOnceTick(dt)

RemoveAt(s, i) == SubSeq(s, 1, i - 1) \o SubSeq(s, i + 1, Len(s))

\* detectOnce(), lines 902-908 and 957-970: the pose model answers invocation i;
\* with a hand the service's detectGesture runs, without one the absence branch
DetectOnceEstimated(i, frame) ==
    /\ session = "background"
    /\ i \in 1..Len(calls)
    /\ calls[i].pc = "estimateHands"
    /\ \E r \in {BgDetectGesture(service, frame)} :
       LET now == calls[i].now
           entry == [now |-> now, hand |-> frame.hand, thr |-> 0, best |-> 0,
                     detected |-> 0, resolved |-> Null, nearTie |-> FALSE,
                     swapped |-> FALSE, emitted |-> FALSE, ret |-> Null,
                     lastBefore |-> service.lastDetectedGesture,
                     timeBefore |-> service.lastGestureTimestamp,
                     adaptiveBefore |-> 0, magSq |-> 0, candidates |-> <<>>]
       IN  IF frame.hand
           THEN /\ service' = r.svc
                /\ calls' = [calls EXCEPT ![i] = [@ EXCEPT !.pc = "detectGesture",
                                                           !.name = r.name,
                                                           !.confidence = r.confidence]]
                /\ log' = Append(log, [entry EXCEPT !.thr = r.thr,
                                                    !.magSq = r.magSq,
                                                    !.best = BestRaw(frame.raw),
                                                    !.candidates = r.gestures,
                                                    !.resolved = r.name,
                                                    !.ret = r.name])
           ELSE /\ service' =
                       IF /\ service.lastDetectedGesture # Null
                          /\ BgAbsenceElapsed(now, service.lastGestureTimestamp)
                       THEN [service EXCEPT !.lastDetectedGesture = Null,
                                            !.gestureSequence = <<>>]
                       ELSE service
                /\ calls' = RemoveAt(calls, i)
                /\ log' = Append(log, entry)
    /\ UNCHANGED <<session, clock, frames, emissions, sequenceActions>>
    /\ UNCHANGED fgVars
    /\ UNCHANGED arbVars
    /\ UNCHANGED cmpVars

\* detectOnce(), lines 910-956: invocation i resumes with the gesture result
DetectOnceResult(i) ==
    /\ session = "background"
    /\ i \in 1..Len(calls)
    /\ calls[i].pc = "detectGesture"
    /\ LET now == calls[i].now
           name == calls[i].name
           emit == /\ name # Null
                   /\ IsNewGesture(name, service.lastDetectedGesture)
                   /\ BgDwellElapsed(now, service.lastGestureTimestamp)
           sequence == PushCapped(service.gestureSequence,
                                  [gesture |-> name, timestamp |-> now], 5)
           sequencePattern == IF Len(sequence) >= 2
                              THEN bgCheckGestureSequence(sequence) ELSE Null
       IN  /\ service' =
                  IF emit
                  THEN [service EXCEPT !.gestureSequence = sequence,
                                       !.gestureCounters[name] = @ + 1,
                                       !.lastDetectedGesture = name,
                                       !.lastGestureTimestamp = now]
                  ELSE service
           \* lines 947-953: the callback start() stored is called; the
           \* emission is stale when the session that made the call is over
           /\ emissions' = IF emit /\ service.onGestureDetected
                           THEN Append(emissions,
                                    [name |-> name, timestamp |-> now,
                                     stale |-> ~(/\ service.isRunning
                                                 /\ service.epoch = calls[i].epoch)])
                           ELSE emissions
           /\ sequenceActions' = IF emit /\ sequencePattern # Null
                                 THEN Append(sequenceActions, sequencePattern)
                                 ELSE sequenceActions
    /\ calls' = RemoveAt(calls, i)
    /\ UNCHANGED <<session, clock, frames, log>>
    /\ UNCHANGED fgVars
    /\ UNCHANGED arbVars
    /\ UNCHANGED cmpVars

\* stop(), lines 1099-1134: isRunning is lowered and cleanup() clears the
\* interval whose handle detectionInterval holds, stops the stream videoStream
\* holds, drops the video element, stops the worker and clears
\* lastDetectedGesture; nothing else.  Calls in flight stay in flight
Stop ==
    /\ session = "background"
    /\ service.isRunning
    /\ service' = [service EXCEPT !.isRunning = FALSE,
                                  !.detectionInterval = FALSE,
                                  !.intervals = IF service.detectionInterval
                                                THEN @ - 1 ELSE @,
                                  !.videoStream = FALSE,
                                  !.streams = IF service.videoStream THEN @ - 1 ELSE @,
                                  !.videoElement = FALSE,
                                  !.workerActive = FALSE,
                                  !.workers = IF service.workerActive THEN @ - 1 ELSE @,
                                  !.lastDetectedGesture = Null]
    /\ UNCHANGED <<session, clock, frames, calls, log, emissions, sequenceActions>>
    /\ UNCHANGED fgVars
    /\ UNCHANGED arbVars
    /\ UNCHANGED cmpVars

\* start(callback), lines 787-809: on a service that is not running the
\* callback is stored, the video element is created and the camera is
\* awaited; starting counts the calls that are awaiting it
StartBegin ==
    /\ session = "background"
    /\ ~service.isRunning
    /\ service.epoch + service.starting < MaxSessions
    /\ service' = [service EXCEPT !.onGestureDetected = TRUE,
                                  !.videoElement = TRUE,
                                  !.starting = @ + 1]
    /\ UNCHANGED <<session, clock, frames, calls, log, emissions, sequenceActions>>
    /\ UNCHANGED fgVars
    /\ UNCHANGED arbVars
    /\ UNCHANGED cmpVars

\* start(callback), lines 811-831: the camera of one awaiting call plays: its
\* stream is stored in videoStream, isRunning is raised, startDetectionLoop
\* sets an interval and stores its handle, startWorker creates a worker
\* unless workerActive
StartComplete ==
    /\ session = "background"
    /\ service.starting > 0
    /\ service' =
          IF service.videoElement
          THEN [service EXCEPT !.starting = @ - 1,
                               !.isRunning = TRUE,
                               !.videoStream = TRUE,
                               !.streams = @ + 1,
                               !.detectionInterval = TRUE,
                               !.intervals = @ + 1,
                               !.workerActive = TRUE,
                               !.workers = IF service.workerActive THEN @ ELSE @ + 1,
                               !.epoch = @ + 1]
          \* a stop() took the video element meanwhile: line 820 throws and
          \* the catch block's cleanup() stops the stream just obtained
          ELSE [service EXCEPT !.starting = @ - 1,
                               !.lastDetectedGesture = Null]
    /\ UNCHANGED <<session, clock, frames, calls, log, emissions, sequenceActions>>
    /\ UNCHANGED fgVars
    /\ UNCHANGED arbVars
    /\ UNCHANGED cmpVars

\* the fields the constructor sets for the detection pipeline, lines 653-671
FreshPipeline(svc) ==
    /\ svc.lastDetectedGesture = Null
    /\ svc.previousHandPosition = NoPosition
    /\ svc.handVelocity = [x |-> 0, y |-> 0]
    /\ svc.gestureConfidenceHistory = [g \in BgNames |-> <<>>]
    /\ svc.gestureCounters = [g \in BgNames |-> 0]
    /\ svc.lastGestureTimestamp = 0
    /\ svc.gestureSequence = <<>>

\* the service once its first start() has completed
InitBackground ==
    service = [isRunning |-> TRUE, handposeModel |-> TRUE, videoElement |-> TRUE,
               onGestureDetected |-> TRUE, detectionInterval |-> TRUE,
               intervals |-> 1, videoStream |-> TRUE, streams |-> 1,
               workerActive |-> TRUE, workers |-> 1, starting |-> 0, epoch |-> 1,
               lastDetectedGesture |-> Null,
               previousHandPosition |-> NoPosition,
               handVelocity |-> [x |-> 0, y |-> 0],
               gestureConfidenceHistory |-> [g \in BgNames |-> <<>>],
               gestureCounters |-> [g \in BgNames |-> 0],
               lastGestureTimestamp |-> 0,
               gestureSequence |-> <<>>]

-----------------------------------------------------------------------------
(* Arbitration gateway: processAmbiguousGesture *)

\* gesture names as the caller and the service may spell them
NameStrings == {"palm", "Palm", "fist", "Fist", "wave"}

\* String.prototype.toLowerCase on those names
toLowerCase(s) ==
    IF s = "Palm" THEN "palm" ELSE IF s = "Fist" THEN "fist" ELSE s

\* names a caller submits, and confidences (tenths) it attaches
CandidateNames == {"Palm", "fist"}
CandidateConfidences == {79, 80}

Candidates ==
    UNION {[1..n -> [name : CandidateNames, confidence : CandidateConfidences]] :
           n \in 1..MaxCandidates}

\* what awaiting openai.chat.completions.create can produce: an exception, a
\* message that JSON.parse rejects, or a JSON object whose gesture field is
\* missing or names anything at all
Missing == "undefined"
Responses ==
    {[kind |-> "throw", gesture |-> Missing, confidence |-> 0],
     [kind |-> "unparsable", gesture |-> Missing, confidence |-> 0]}
    \cup {[kind |-> "json", gesture |-> g, confidence |-> 95] :
          g \in NameStrings \cup {Missing}}

\* the sort keys of candidates
Confidences(candidates) ==
    [i \in 1..Len(candidates) |-> candidates[i].confidence]

\* a fallback that answers the first listed candidate
Fallback_first(candidates) ==
    [name |-> candidates[1].name, confidence |-> candidates[1].confidence,
     aiEnhanced |-> FALSE]

\* candidates.sort((a, b) => b.confidence - a.confidence)[0]
Fallback(candidates) ==
    LET best == SortDesc(candidates, Confidences(candidates))[1]
    IN  [name |-> best.name, confidence |-> best.confidence, aiEnhanced |-> FALSE]

\* candidates.find(c => c.name.toLowerCase() === gesture.toLowerCase()):
\* the index of the first match, 0 when there is none
FindCandidate(candidates, gesture) ==
    LET hits == {i \in 1..Len(candidates) :
                    toLowerCase(candidates[i].name) = toLowerCase(gesture)}
    IN  IF hits = {} THEN 0 ELSE CHOOSE i \in hits : \A j \in hits : i <= j

\* a gateway that trusts the name the service answers
Adjudicate_trusting(candidates, resp) ==
    IF resp.kind # "json" \/ resp.gesture = Missing
    THEN Fallback(candidates)
    ELSE [name |-> resp.gesture, confidence |-> resp.confidence, aiEnhanced |-> TRUE]

\* lines 265-289: the value returned once the call has produced resp
Adjudicate(candidates, resp) ==
    IF resp.kind # "json" \/ resp.gesture = Missing
    THEN Fallback(candidates)               \* the catch block
    ELSE LET m == FindCandidate(candidates, resp.gesture)
         IN  IF m # 0
             THEN [name |-> candidates[m].name, confidence |-> resp.confidence,
                   aiEnhanced |-> TRUE]
             ELSE Fallback(candidates)

NoResult == [name |-> Null, confidence |-> 0, aiEnhanced |-> FALSE]

\* lines 213-218: without a client the call awaits initAI(), which answers
\* false when no API key is found or the client cannot be built
InitAI(ok) ==
    /\ session = "arbitration"
    /\ arb.pc = "initAI"
    /\ IF ok
       THEN /\ openai' = "client"
            /\ arb' = [arb EXCEPT !.pc = "create"]
       ELSE /\ openai' = openai
            /\ arb' = [arb EXCEPT !.pc = "done", !.result = Fallback(arb.candidates),
                                  !.outcome = "unavailable"]
    /\ UNCHANGED <<session, clock, frames, service, calls, log, emissions,
                   sequenceActions>>
    /\ UNCHANGED fgVars
    /\ UNCHANGED cmpVars

\* lines 248-289: the awaited completion call produces resp
Completion(resp) ==
    /\ session = "arbitration"
    /\ arb.pc = "create"
    /\ arb' = [arb EXCEPT !.pc = "done", !.result = Adjudicate(arb.candidates, resp),
                          !.outcome = resp.kind, !.response = resp.gesture]
    /\ UNCHANGED <<session, clock, frames, service, calls, openai, log, emissions,
                   sequenceActions>>
    /\ UNCHANGED fgVars
    /\ UNCHANGED cmpVars

\* a call of processAmbiguousGesture(candidates) has just been made
InitArbitration ==
    /\ openai \in {Null, "client"}
    /\ \E c \in Candidates :
          arb = [pc |-> IF openai = Null THEN "initAI" ELSE "create",
                 candidates |-> c, result |-> NoResult, outcome |-> Null,
                 response |-> Missing]

\* no call of the gateway in this run
NoArbitration ==
    /\ openai = Null
    /\ arb = [pc |-> "idle", candidates |-> <<>>, result |-> NoResult,
              outcome |-> Null, response |-> Missing]

-----------------------------------------------------------------------------
(* The stability resolver of detectGesture, lines 1276-1314, as a function of
   the confidence histories and the scores of one frame *)

\* scores (tenths) the histories hold
ResolverScores == {72, 76, 80}

\* a confidence history before the frame
Samples == UNION {[1..n -> ResolverScores] : n \in 0..MaxSamples}

\* the frame's raw scores: inside the near-tie band, on its edge (7.2 is
\* 0.9 * 8.0), outside it
RawBand == [g \in {"thumbs_up", "thumbs_down"} |-> IF g = "thumbs_up" THEN 80 ELSE 76]
RawEdge == [g \in {"thumbs_up", "thumbs_down"} |-> IF g = "thumbs_up" THEN 80 ELSE 72]
RawWide == [g \in {"thumbs_up", "thumbs_down"} |-> IF g = "thumbs_up" THEN 80 ELSE 70]
ResolverRaws == {RawBand, RawEdge, RawWide}

NoResolver ==
    resolver = [pc |-> "idle", hist |-> [g \in FgNames |-> <<>>],
                sorted |-> <<>>, ranked |-> <<>>]

\* the histories of the two gestures are given
InitResolver ==
    \E up \in Samples, down \in Samples :
        resolver = [pc |-> "ready",
                    hist |-> [g \in FgNames |->
                                 IF g = "thumbs_up" THEN up
                                 ELSE IF g = "thumbs_down" THEN down ELSE <<>>],
                    sorted |-> <<>>, ranked |-> <<>>]

\* lines 1260-1314 for a frame with scores raw: estimate, history update,
\* ranking, stability comparison
Resolve(raw) ==
    /\ session = "resolver"
    /\ resolver.pc = "ready"
    /\ \E detected \in {Estimate(FgGestureOrder, raw, 6 * ThrUnit)} :
       \E hist \in {UpdateHistory(resolver.hist, detected)},
          sorted \in {TopGestures(detected)} :
          resolver' = [pc |-> "done", hist |-> hist, sorted |-> sorted,
                       ranked |-> RankGestures(sorted, hist)]
    /\ UNCHANGED <<session, clock, frames, service, calls, detector, server,
                   log, emissions, sequenceActions>>
    /\ UNCHANGED fgVars
    /\ UNCHANGED arbVars
    /\ UNCHANGED voice

-----------------------------------------------------------------------------
(* GestureDetector: the detection effect of the component, one instance of
   it from startDetection() to after its cleanup *)

\* gestureToAction: the action of a gesture name, Null when it has none
gestureToAction(name) ==
    IF name = "swipe_right" THEN "GO_BACK"
    ELSE IF name = "swipe_left" THEN "OPEN_SETTINGS"
    ELSE IF name = "thumbs_up" THEN "TAKE_PHOTO"
    ELSE IF name = "palm" THEN "OPEN_CAMERA"
    ELSE IF name = "pinch" THEN "DECREASE_BRIGHTNESS"
    ELSE IF name = "spread" THEN "INCREASE_BRIGHTNESS"
    ELSE Null

\* what a detectGesture call resolves to: null or a result with this name
DetectorResults == {Null, "thumbs_up", "thumbs_down"}

\* the fields after executed are the component's timing: the detection
\* interval in ms, the time until the interval fires next, the time until each
\* detectGesture call in flight resolves, the time until the debounce timer
\* fires (NoTimer when none is pending)
NoTimer == -1

IdleDetector ==
    [pc |-> "idle", cleaned |-> FALSE, videoRef |-> FALSE, frameProcessorId |-> FALSE,
     gestureDebounceTimer |-> Null, lastGesture |-> Null, inFlight |-> 0,
     executed |-> <<>>,
     detectionInterval |-> 350, tickIn |-> 0, resolveIn |-> <<>>, timerIn |-> NoTimer]

NoDetector == detector = IdleDetector

\* lines 215-222: the effect has run with isInitialized, hasPermission and a
\* video element, and startDetection awaits startGestureTraining
InitDetector ==
    detector = [IdleDetector EXCEPT !.pc = "startGestureTraining", !.videoRef = TRUE]

\* lines 250-324: startGestureTraining has resolved and the interval is set,
\* whether or not the cleanup has run meanwhile
TrainingStarted ==
    /\ session = "component"
    /\ detector.pc = "startGestureTraining"
    /\ detector' = [detector EXCEPT !.pc = "interval", !.frameProcessorId = TRUE]
    /\ UNCHANGED <<session, clock, frames, service, calls, server, resolver,
                   log, emissions, sequenceActions>>
    /\ UNCHANGED fgVars
    /\ UNCHANGED arbVars
    /\ UNCHANGED voice

\* lines 250-253: the interval fires and its callback awaits detectGesture
IntervalTick ==
    /\ session = "component"
    /\ detector.frameProcessorId
    /\ detector.videoRef
    /\ frames < MaxFrames
    /\ detector.inFlight < MaxInFlight
    /\ frames' = frames + 1
    /\ detector' = [detector EXCEPT !.inFlight = @ + 1]
    /\ UNCHANGED <<session, clock, service, calls, server, resolver,
                   log, emissions, sequenceActions>>
    /\ UNCHANGED fgVars
    /\ UNCHANGED arbVars
    /\ UNCHANGED voice

\* lines 253-314: a detectGesture call resolves; a result whose name differs
\* from the lastGesture the effect closed over replaces the debounce timer
DetectReturns(result) ==
    /\ session = "component"
    /\ detector.inFlight > 0
    /\ detector' = [detector EXCEPT
                        !.inFlight = @ - 1,
                        !.gestureDebounceTimer =
                            IF result # Null /\ result # detector.lastGesture
                            THEN result ELSE @]
    /\ UNCHANGED <<session, clock, frames, service, calls, server, resolver,
                   log, emissions, sequenceActions>>
    /\ UNCHANGED fgVars
    /\ UNCHANGED arbVars
    /\ UNCHANGED voice

\* lines 276-307: the debounce timer fires; a gesture that has an action is
\* executed and the parent is notified
DebounceFires ==
    /\ session = "component"
    /\ detector.gestureDebounceTimer # Null
    /\ detector' = [detector EXCEPT
                        !.gestureDebounceTimer = Null,
                        !.executed =
                            IF gestureToAction(detector.gestureDebounceTimer) # Null
                            THEN Append(@, [gesture |-> detector.gestureDebounceTimer,
                                            action |-> gestureToAction(
                                                detector.gestureDebounceTimer),
                                            afterCleanup |-> detector.cleaned])
                            ELSE @]
    /\ UNCHANGED <<session, clock, frames, service, calls, server, resolver,
                   log, emissions, sequenceActions>>
    /\ UNCHANGED fgVars
    /\ UNCHANGED arbVars
    /\ UNCHANGED voice

\* lines 336-345: the effect's cleanup, on unmount (the video element goes) or
\* on a change of the effect's dependencies: the interval is cleared if
\* frameProcessorId has been assigned, the pending debounce timer is cleared
Cleanup(unmount) ==
    /\ session = "component"
    /\ ~detector.cleaned
    /\ detector' = [detector EXCEPT !.cleaned = TRUE,
                                    !.videoRef = ~unmount,
                                    !.frameProcessorId = FALSE,
                                    !.gestureDebounceTimer = Null]
    /\ UNCHANGED <<session, clock, frames, service, calls, server, resolver,
                   log, emissions, sequenceActions>>
    /\ UNCHANGED fgVars
    /\ UNCHANGED arbVars
    /\ UNCHANGED voice

\* ---- the same effect with its timers: the interval of detectionInterval ms,
\* the latency of each detectGesture call, the 200 ms debounce timer.  Time
\* passes in steps of TimeStep; what is due at one instant happens in any order

TimeStep == 50

\* lines 36-39: 350 ms, or 200 ms in high-performance mode
DetectionIntervals == {200, 350}

\* the time a detectGesture call takes
Latencies == {50, 100, 150, 250}

\* line 309: the debounce delay
DebounceDelay == 200

\* the gesture every call resolves to: it has an action and is not displayed
HeldGesture == "thumbs_up"

\* the interval has just been set, in either mode
InitTimedDetector ==
    \E p \in DetectionIntervals :
        detector = [IdleDetector EXCEPT !.pc = "interval", !.videoRef = TRUE,
                                        !.frameProcessorId = TRUE,
                                        !.detectionInterval = p, !.tickIn = p]

\* lines 250-253: the interval fires; its callback awaits a detectGesture
\* call that takes latency ms
TimedIntervalTick(latency) ==
    /\ session = "timed"
    /\ detector.pc = "interval"
    /\ detector.tickIn = 0
    /\ Len(detector.resolveIn) < MaxInFlight
    /\ detector' = [detector EXCEPT !.tickIn = detector.detectionInterval,
                                    !.resolveIn = Append(@, latency)]
    /\ UNCHANGED <<session, clock, frames, service, calls, server, resolver,
                   log, emissions, sequenceActions>>
    /\ UNCHANGED fgVars
    /\ UNCHANGED arbVars
    /\ UNCHANGED voice

\* lines 253-309: call i resolves to the held gesture, which is not
\* lastGesture: the pending timer is cleared and a new one is set
TimedDetectReturns(i) ==
    /\ session = "timed"
    /\ detector.pc = "interval"
    /\ i \in 1..Len(detector.resolveIn)
    /\ detector.resolveIn[i] = 0
    /\ detector' = [detector EXCEPT
                        !.resolveIn = RemoveAt(@, i),
                        !.gestureDebounceTimer =
                            IF HeldGesture # detector.lastGesture THEN HeldGesture ELSE @,
                        !.timerIn =
                            IF HeldGesture # detector.lastGesture THEN DebounceDelay ELSE @]
    /\ UNCHANGED <<session, clock, frames, service, calls, server, resolver,
                   log, emissions, sequenceActions>>
    /\ UNCHANGED fgVars
    /\ UNCHANGED arbVars
    /\ UNCHANGED voice

\* lines 276-307: the debounce timer fires and the action is executed
TimedDebounceFires ==
    /\ session = "timed"
    /\ detector.pc = "interval"
    /\ detector.timerIn = 0
    /\ detector' = [detector EXCEPT
                        !.pc = "executed",
                        !.timerIn = NoTimer,
                        !.lastGesture = detector.gestureDebounceTimer,
                        !.gestureDebounceTimer = Null,
                        !.executed =
                            Append(@, [gesture |-> detector.gestureDebounceTimer,
                                       action |-> gestureToAction(
                                           detector.gestureDebounceTimer),
                                       afterCleanup |-> detector.cleaned])]
    /\ UNCHANGED <<session, clock, frames, service, calls, server, resolver,
                   log, emissions, sequenceActions>>
    /\ UNCHANGED fgVars
    /\ UNCHANGED arbVars
    /\ UNCHANGED voice

\* nothing is due: TimeStep ms pass
TimePasses ==
    /\ session = "timed"
    /\ detector.pc = "interval"
    /\ detector.tickIn > 0
    /\ detector.timerIn # 0
    /\ \A i \in 1..Len(detector.resolveIn) : detector.resolveIn[i] > 0
    /\ detector' = [detector EXCEPT
                        !.tickIn = @ - TimeStep,
                        !.timerIn = IF @ = NoTimer THEN @ ELSE @ - TimeStep,
                        !.resolveIn = [i \in 1..Len(@) |-> @[i] - TimeStep]]
    /\ UNCHANGED <<session, clock, frames, service, calls, server, resolver,
                   log, emissions, sequenceActions>>
    /\ UNCHANGED fgVars
    /\ UNCHANGED arbVars
    /\ UNCHANGED voice

-----------------------------------------------------------------------------
(* The server's handler of POST /api/ai/process-gesture *)

\* confidences (hundredths) a client attaches; the handler answers a first
\* candidate above 0.9 directly
ServerConfidences == {80, 85, 95}

\* req.body.candidates when it is an array
ServerCandidates ==
    UNION {[1..n -> [name : CandidateNames, confidence : ServerConfidences]] :
           n \in 0..MaxCandidates}

\* a response that carries no gesture
NoGesture == [name |-> Missing, confidence |-> 0]

IdleServer ==
    [pc |-> "idle", openai |-> Null, express |-> "v4", hasCandidates |-> FALSE,
     candidates |-> <<>>, status |-> 0, method |-> Null, gesture |-> NoGesture]

NoServer == server = IdleServer

\* a request has arrived: the client was built at startup or not (lines 8-17),
\* the body has a candidates array or none; a handler whose promise rejects is
\* left unanswered by express 4 and answered 500 by express 5
InitServer ==
    \E o \in {Null, "client"}, e \in {"v4", "v5"}, has \in BOOLEAN,
       c \in ServerCandidates :
        /\ ~has => c = <<>>
        /\ server = [IdleServer EXCEPT !.pc = "received", !.openai = o,
                                       !.express = e, !.hasCandidates = has,
                                       !.candidates = c]

Respond(status, method, gesture) ==
    [server EXCEPT !.pc = "responded", !.status = status, !.method = method,
                   !.gesture = gesture]

\* a TypeError inside the catch block: the async handler's promise rejects
Rejected ==
    IF server.express = "v5"
    THEN Respond(500, "error_handler", NoGesture)
    ELSE [server EXCEPT !.pc = "unanswered"]

\* req.body.candidates.sort((a, b) => b.confidence - a.confidence)[0]
ServerFallback(candidates) == SortDesc(candidates, Confidences(candidates))[1]

\* lines 219-228: the catch block
ErrorFallback ==
    IF ~server.hasCandidates THEN Rejected
    ELSE IF server.candidates = <<>> THEN Respond(200, "error_fallback", NoGesture)
    ELSE Respond(200, "error_fallback", ServerFallback(server.candidates))

\* lines 119-174: the handler up to its first response or to the awaited call
ServerHandle ==
    /\ session = "server"
    /\ server.pc = "received"
    /\ server' =
          IF server.openai = Null
          THEN IF ~server.hasCandidates THEN ErrorFallback
               ELSE Respond(503, "unavailable",
                            IF server.candidates = <<>> THEN NoGesture
                            ELSE server.candidates[1])
          ELSE IF ~server.hasCandidates \/ server.candidates = <<>>
          THEN Respond(400, "bad_request", NoGesture)
          ELSE IF Len(server.candidates) = 1 \/ server.candidates[1].confidence > 90
          THEN Respond(200, "direct", server.candidates[1])
          ELSE [server EXCEPT !.pc = "create"]
    /\ UNCHANGED <<session, clock, frames, service, calls, detector, resolver,
                   log, emissions, sequenceActions>>
    /\ UNCHANGED fgVars
    /\ UNCHANGED arbVars
    /\ UNCHANGED voice

\* lines 174-228: the awaited completion call produces resp
ServerCompletion(resp) ==
    /\ session = "server"
    /\ server.pc = "create"
    /\ server' =
          IF resp.kind # "json" \/ resp.gesture = Missing
          THEN ErrorFallback
          ELSE LET m == FindCandidate(server.candidates, resp.gesture)
               IN  IF m # 0
                   THEN Respond(200, "ai", [name |-> server.candidates[m].name,
                                            confidence |-> resp.confidence])
                   ELSE Respond(200, "fallback", ServerFallback(server.candidates))
    /\ UNCHANGED <<session, clock, frames, service, calls, detector, resolver,
                   log, emissions, sequenceActions>>
    /\ UNCHANGED fgVars
    /\ UNCHANGED arbVars
    /\ UNCHANGED voice

-----------------------------------------------------------------------------
(* Voice authentication: authenticateVoice and the module-level flag
   isAuthenticating (src/src/utils/aiEnhancement.js) *)

\* awaiting counts the calls past the guard that await extractVoiceFeatures;
\* returned lists what the calls returned, in the order they returned
IdleVoice ==
    [isAuthenticating |-> FALSE, profile |-> FALSE, made |-> 0, awaiting |-> 0,
     returned |-> <<>>]

NoVoice == voice = IdleVoice

\* line 1528; the current user has a completed voice profile or none
InitVoice == \E p \in BOOLEAN : voice = [IdleVoice EXCEPT !.profile = p]

\* what extractVoiceFeatures and the comparison lead to
VoiceOutcomes == {"granted", "denied", "error"}

\* lines 1813-1836: a call is made.  With the flag up it throws inside its try
\* block and the catch block lowers the flag; else it raises the flag and,
\* with a profile, awaits the features
AuthenticateVoice ==
    /\ session = "voice"
    /\ voice.made < MaxAuthCalls
    /\ voice' =
          IF voice.isAuthenticating
          THEN [voice EXCEPT !.made = @ + 1,
                             !.isAuthenticating = FALSE,
                             !.returned = Append(@, "in_progress")]
          ELSE IF ~voice.profile
          THEN [voice EXCEPT !.made = @ + 1,
                             !.isAuthenticating = FALSE,
                             !.returned = Append(@, "no_profile")]
          ELSE [voice EXCEPT !.made = @ + 1,
                             !.isAuthenticating = TRUE,
                             !.awaiting = @ + 1]
    /\ UNCHANGED <<session, clock, frames, service, calls, detector, server,
                   resolver, log, emissions, sequenceActions>>
    /\ UNCHANGED fgVars
    /\ UNCHANGED arbVars

\* lines 1838-1867: the features of an awaiting call arrive, or extracting
\* them throws; either way the flag is lowered and the call returns
FeaturesExtracted(outcome) ==
    /\ session = "voice"
    /\ voice.awaiting > 0
    /\ voice' = [voice EXCEPT !.awaiting = @ - 1,
                              !.isAuthenticating = FALSE,
                              !.returned = Append(@, outcome)]
    /\ UNCHANGED <<session, clock, frames, service, calls, detector, server,
                   resolver, log, emissions, sequenceActions>>
    /\ UNCHANGED fgVars
    /\ UNCHANGED arbVars

-----------------------------------------------------------------------------
InitForeground ==
    /\ lastGesture = Null
    /\ lastGestureTime = 0
    /\ gestureSequence = <<>>
    /\ gestureConfidenceHistory = [g \in FgNames |-> <<>>]
    /\ gestureCounters = [g \in FgNames |-> 0]
    /\ gestureWindowStart = 0
    /\ adaptiveThreshold = (75 * ThrUnit) \div 10
    /\ previousHandPosition = NoPosition
    /\ handVelocity = [x |-> 0, y |-> 0]
    /\ arbitrationCalls = 0

Init ==
    /\ session \in {"foreground", "background"}
    /\ clock \in StartTimes
    /\ frames = 0
    /\ InitForeground
    /\ InitBackground
    /\ calls = <<>>
    /\ NoArbitration
    /\ NoDetector
    /\ NoServer
    /\ NoResolver
    /\ NoVoice
    /\ log = <<>>
    /\ emissions = <<>>
    /\ sequenceActions = <<>>

Next ==
    \/ \E input \in FgInputs : DetectGesture(input.dt, input.frame)
    \/ \E dt \in BgDeltas : DetectOnceStart(dt)
    \/ \E i \in 1..MaxInFlight, frame \in BgFrames : DetectOnceEstimated(i, frame)
    \/ \E i \in 1..MaxInFlight : DetectOnceResult(i)

\* the two detectors, one per run
Spec == Init /\ [][Next]_vars

InitArb ==
    /\ session = "arbitration"
    /\ clock \in StartTimes
    /\ frames = 0
    /\ InitForeground
    /\ InitBackground
    /\ calls = <<>>
    /\ InitArbitration
    /\ NoDetector
    /\ NoServer
    /\ NoResolver
    /\ NoVoice
    /\ log = <<>>
    /\ emissions = <<>>
    /\ sequenceActions = <<>>

NextArb ==
    \/ \E ok \in BOOLEAN : InitAI(ok)
    \/ \E resp \in Responses : Completion(resp)

\* the arbitration gateway
SpecArb == InitArb /\ [][NextArb]_vars

\* the gateway's own steps are taken when they can be: initAI reads local
\* storage and settles.  Nothing makes the external service answer.
SpecArbFair == SpecArb /\ WF_vars(\E ok \in BOOLEAN : InitAI(ok))

\* everything but the component a run exercises, as constructed
InitRest ==
    /\ clock \in StartTimes
    /\ frames = 0
    /\ InitForeground
    /\ InitBackground
    /\ calls = <<>>
    /\ log = <<>>
    /\ emissions = <<>>
    /\ sequenceActions = <<>>

\* runs that follow the sequence window: one gesture per frame, a hand that
\* stays in place, calls up to several seconds apart
RawUp == [g \in {"thumbs_up"} |-> 95]
RawPointUp == [g \in {"pointing_up"} |-> 95]
RawPointDown == [g \in {"pointing_down"} |-> 95]

WindowDeltas == {400, 1200, 3200}

WindowInputs ==
    { [dt |-> d, frame |-> f] :
        d \in WindowDeltas,
        f \in { Frame(FALSE, PosStill, RawNone), Frame(TRUE, PosStill, RawUp),
                Frame(TRUE, PosStill, RawHigh) } }

BgWindowDeltas == {600, 4000}

BgWindowFrames ==
    { Frame(FALSE, PosStill, RawNone), Frame(TRUE, PosStill, RawPointUp),
      Frame(TRUE, PosStill, RawPointDown) }

NextWindow ==
    \/ \E input \in WindowInputs : DetectGesture(input.dt, input.frame)
    \/ \E dt \in BgWindowDeltas : DetectOnceStart(dt)
    \/ \E i \in 1..MaxInFlight, frame \in BgWindowFrames : DetectOnceEstimated(i, frame)
    \/ \E i \in 1..MaxInFlight : DetectOnceResult(i)

\* the two detectors over several seconds
SpecWindow == Init /\ [][NextWindow]_vars

\* runs that follow a session from its start to after its end: the background
\* service with its stop() and start(), the component's detection effect
LifecycleFrames ==
    { Frame(FALSE, PosStill, RawNone), Frame(TRUE, PosStill, RawBgPalm),
      Frame(TRUE, PosFar, RawBgUp) }

InitLife ==
    /\ session \in {"background", "component"}
    /\ InitRest
    /\ NoArbitration
    /\ IF session = "component" THEN InitDetector ELSE NoDetector
    /\ NoServer
    /\ NoResolver
    /\ NoVoice

NextLife ==
    \/ \E dt \in BgDeltas : DetectOnceStart(dt)
    \/ \E i \in 1..MaxInFlight, frame \in LifecycleFrames : DetectOnceEstimated(i, frame)
    \/ \E i \in 1..MaxInFlight : DetectOnceResult(i)
    \/ Stop
    \/ StartBegin
    \/ StartComplete
    \/ TrainingStarted
    \/ IntervalTick
    \/ \E result \in DetectorResults : DetectReturns(result)
    \/ DebounceFires
    \/ \E unmount \in BOOLEAN : Cleanup(unmount)

\* sessions of the background service and of the component
SpecLifecycle == InitLife /\ [][NextLife]_vars

\* the background service as its constructor and initialize() leave it: the
\* model is loaded, start() has not been called
NotStarted ==
    service = [isRunning |-> FALSE, handposeModel |-> TRUE, videoElement |-> FALSE,
               onGestureDetected |-> FALSE, detectionInterval |-> FALSE,
               intervals |-> 0, videoStream |-> FALSE, streams |-> 0,
               workerActive |-> FALSE, workers |-> 0, starting |-> 0, epoch |-> 0,
               lastDetectedGesture |-> Null,
               previousHandPosition |-> NoPosition,
               handVelocity |-> [x |-> 0, y |-> 0],
               gestureConfidenceHistory |-> [g \in BgNames |-> <<>>],
               gestureCounters |-> [g \in BgNames |-> 0],
               lastGestureTimestamp |-> 0,
               gestureSequence |-> <<>>]

InitStart ==
    /\ session = "background"
    /\ clock \in StartTimes
    /\ frames = 0
    /\ InitForeground
    /\ NotStarted
    /\ calls = <<>>
    /\ NoArbitration
    /\ NoDetector
    /\ NoServer
    /\ NoResolver
    /\ NoVoice
    /\ log = <<>>
    /\ emissions = <<>>
    /\ sequenceActions = <<>>

NextStart ==
    \/ StartBegin
    \/ StartComplete
    \/ Stop
    \/ \E dt \in BgDeltas : DetectOnceStart(dt)
    \/ \E i \in 1..MaxInFlight, frame \in LifecycleFrames : DetectOnceEstimated(i, frame)
    \/ \E i \in 1..MaxInFlight : DetectOnceResult(i)

\* the background service from before its first start(), with start() calls
\* that may overlap
SpecStart == InitStart /\ [][NextStart]_vars

InitTimed ==
    /\ session = "timed"
    /\ InitRest
    /\ NoArbitration
    /\ InitTimedDetector
    /\ NoServer
    /\ NoResolver
    /\ NoVoice

NextTimed ==
    \/ \E latency \in Latencies : TimedIntervalTick(latency)
    \/ \E i \in 1..MaxInFlight : TimedDetectReturns(i)
    \/ TimedDebounceFires
    \/ TimePasses

\* the component's detection effect with its timers
SpecTimed == InitTimed /\ [][NextTimed]_vars

\* time passes, and what is due happens: the interval's callback runs, a call
\* resolves, a timer that is due and not cleared fires
SpecTimedFair ==
    /\ SpecTimed
    /\ WF_vars(TimePasses)
    /\ WF_vars(\E latency \in Latencies : TimedIntervalTick(latency))
    /\ WF_vars(\E i \in 1..MaxInFlight : TimedDetectReturns(i))
    /\ WF_vars(TimedDebounceFires)

InitAuth ==
    /\ session = "voice"
    /\ InitRest
    /\ NoArbitration
    /\ NoDetector
    /\ NoServer
    /\ NoResolver
    /\ InitVoice

NextAuth ==
    \/ AuthenticateVoice
    \/ \E outcome \in VoiceOutcomes : FeaturesExtracted(outcome)

\* voice authentication
SpecAuth == InitAuth /\ [][NextAuth]_vars

InitSrv ==
    /\ session = "server"
    /\ InitRest
    /\ NoArbitration
    /\ NoDetector
    /\ InitServer
    /\ NoResolver
    /\ NoVoice

NextSrv ==
    \/ ServerHandle
    \/ \E resp \in Responses : ServerCompletion(resp)

\* the server's gesture endpoint
SpecServer == InitSrv /\ [][NextSrv]_vars

InitRes ==
    /\ session = "resolver"
    /\ InitRest
    /\ NoArbitration
    /\ NoDetector
    /\ NoServer
    /\ InitResolver
    /\ NoVoice

NextRes == \E raw \in ResolverRaws : Resolve(raw)

\* the stability resolver on given histories
SpecResolver == InitRes /\ [][NextRes]_vars

\* runs long enough to fill the sequence window: a gesture per frame, the
\* hand moving 10 px between frames (a movement that leaves the threshold alone)
LongDelta == 400
BgLongDelta == 600

\* where the hand is in the next frame: 10 px from where it was
NextPosition ==
    IF previousHandPosition = <<calculateHandCenter(PosStill)>> THEN PosMid ELSE PosStill

LongFrames ==
    { Frame(FALSE, PosStill, RawNone), Frame(TRUE, NextPosition, RawUp),
      Frame(TRUE, NextPosition, RawHigh) }

BgLongFrames == { Frame(TRUE, PosStill, RawBgUp), Frame(TRUE, PosStill, RawBgPalm) }

\* a call of detectGesture in a run of at most MaxLongFrames calls
LongDetectGesture(frame) ==
    /\ frames < MaxLongFrames
    /\ DetectGestureCall(LongDelta, frame)

\* an invocation of detectOnce in a run of at most MaxLongFrames invocations,
\* each made after the one before it has returned
LongDetectOnceStart ==
    /\ frames < MaxLongFrames
    /\ calls = <<>>
    /\ DetectOnceTick(BgLongDelta)

NextLong ==
    \/ \E frame \in LongFrames : LongDetectGesture(frame)
    \/ LongDetectOnceStart
    \/ \E i \in 1..MaxInFlight, frame \in BgLongFrames : DetectOnceEstimated(i, frame)
    \/ \E i \in 1..MaxInFlight : DetectOnceResult(i)

\* the two detectors over runs of many emissions
SpecLong == Init /\ [][NextLong]_vars

-----------------------------------------------------------------------------
(* Properties *)

Foreground == session = "foreground"

\* the frames i..j of the log all show a hand and resolve to name
IsRun(i, j, name) ==
    /\ i <= j
    /\ \A k \in i..j : log[k].hand /\ log[k].resolved = name

\* frame i is the first of its run
RunStartsAt(i, name) ==
    i = 1 \/ ~(log[i - 1].hand /\ log[i - 1].resolved = name)

EmitCount(i, j) == Cardinality({k \in i..j : log[k].emitted})

\* the frame showed a hand and none of its raw scores reached its threshold
BelowThreshold(e) == e.hand /\ ScoreAsThr(e.best) < e.thr

\* C1: in both detectors, two successive emissions with different names are
\* at least the dwell interval apart (350 ms foreground, 500 ms background)
C1_DwellBetweenEmissions ==
    \A i \in 1..(Len(emissions) - 1) :
        emissions[i].name # emissions[i + 1].name
        => emissions[i + 1].timestamp - emissions[i].timestamp
              >= (IF Foreground THEN 350 ELSE 500)

\* C1 witness: the foreground detector has emitted two different names in turn
C1_Witness ==
    /\ Foreground
    /\ Len(emissions) >= 2
    /\ emissions[1].name # emissions[2].name

\* C2: while no frame's scores reach the frame's threshold, nothing is ever
\* emitted: every call returns null and the debounce state and the sequence
\* window stay as constructed
C2_NoEmissionBelowThreshold ==
    (\A i \in 1..Len(log) : ~log[i].hand \/ BelowThreshold(log[i]))
    => /\ emissions = <<>>
       /\ \A i \in 1..Len(log) : log[i].ret = Null
       /\ lastGesture = Null /\ lastGestureTime = 0 /\ gestureSequence = <<>>
       /\ service.lastDetectedGesture = Null
       /\ service.lastGestureTimestamp = 0
       /\ service.gestureSequence = <<>>

\* C2 witness: two frames with a hand, one scoring 8.0 against a threshold
\* raised by motion, and no frame reaching its threshold
C2_Witness ==
    /\ Foreground
    /\ Len(log) >= 2
    /\ \A i \in 1..Len(log) : BelowThreshold(log[i])
    /\ \E i \in 1..Len(log) : log[i].best = 80

\* C3 as stated: a run of N consecutive frames resolving to the same name
\* carries exactly one emission, whatever preceded the run
C3_ExactlyOnePerRun ==
    Foreground =>
        \A i \in 1..Len(log), j \in 1..Len(log) :
            (log[i].resolved # Null /\ IsRun(i, j, log[i].resolved)
               /\ RunStartsAt(i, log[i].resolved))
            => EmitCount(i, j) = 1

\* C3 amended: such a run carries at most one emission, and exactly one, on
\* its first frame, when at that frame the name differs from lastGesture and
\* more than 350 ms have passed since lastGestureTime
C3_AtMostOnePerRun ==
    Foreground =>
        \A i \in 1..Len(log), j \in 1..Len(log) :
            (log[i].resolved # Null /\ IsRun(i, j, log[i].resolved)
               /\ RunStartsAt(i, log[i].resolved))
            => /\ EmitCount(i, j) <= 1
               /\ (log[i].lastBefore # log[i].resolved
                      /\ log[i].now - log[i].timeBefore > 350)
                  => (log[i].emitted /\ EmitCount(i, j) = 1)

\* C3 witness: a run of three frames, spaced so that the dwell interval has
\* passed again within it, with one emission
C3_Witness ==
    /\ Foreground
    /\ \E i \in 1..Len(log) :
          /\ i + 2 <= Len(log)
          /\ log[i].resolved # Null
          /\ IsRun(i, i + 2, log[i].resolved)
          /\ log[i].emitted
          /\ log[i + 2].now - log[i].now > 350
          /\ EmitCount(i, i + 2) = 1

\* C4: a name is emitted, every frame after that up to frame k shows no hand,
\* the first of them more than 500 ms before frame k, and frame k resolves to
\* the same name: then frame k emits it again
C4_ReemittedAfterAbsence ==
    Foreground =>
        \A e \in 1..Len(log), k \in 1..Len(log) :
            (/\ e + 1 < k
             /\ log[e].emitted
             /\ \A m \in (e + 1)..(k - 1) : ~log[m].hand
             /\ log[k].now - log[e + 1].now > 500
             /\ log[k].hand /\ log[k].resolved = log[e].resolved)
            => log[k].emitted

\* C5 as stated: a frame resolving to a name other than lastGesture at least
\* 350 ms after lastGestureTime emits
C5_EmitsAtDwell ==
    Foreground =>
        \A i \in 1..Len(log) :
            (log[i].resolved # Null /\ log[i].resolved # log[i].lastBefore
               /\ log[i].now - log[i].timeBefore >= 350)
            => /\ log[i].emitted
               /\ i = Len(log) => (lastGesture = log[i].resolved
                                     /\ lastGestureTime = log[i].now)

\* C5 amended: a frame resolving to a name other than lastGesture more than
\* 350 ms after lastGestureTime emits: lastGesture becomes the name and
\* lastGestureTime the frame's timestamp
C5_EmitsAfterDwell ==
    Foreground =>
        \A i \in 1..Len(log) :
            (log[i].resolved # Null /\ log[i].resolved # log[i].lastBefore
               /\ log[i].now - log[i].timeBefore > 350)
            => /\ log[i].emitted
               /\ i = Len(log) => (lastGesture = log[i].resolved
                                     /\ lastGestureTime = log[i].now)

\* C5 witness: a held gesture gives way to another one 500 ms after its emission
C5_Witness ==
    /\ Foreground
    /\ Len(log) >= 2
    /\ LET e == log[Len(log)]
       IN  /\ e.lastBefore # Null
           /\ e.resolved # Null /\ e.resolved # e.lastBefore
           /\ e.now - e.timeBefore = 500
           /\ lastGesture = e.resolved /\ lastGestureTime = e.now

\* C6: the stored adaptive threshold stays in [6.0, 9.0], and the threshold of
\* every frame handed to the scorer is in [6.0, 9.0] (background [7.5, 10.0])
C6_ThresholdWithinBounds ==
    /\ 6 * ThrUnit <= adaptiveThreshold /\ adaptiveThreshold <= 9 * ThrUnit
    /\ \A i \in 1..Len(log) :
          log[i].hand =>
              IF Foreground
              THEN 6 * ThrUnit <= log[i].thr /\ log[i].thr <= 9 * ThrUnit
              ELSE (75 * ThrUnit) \div 10 <= log[i].thr /\ log[i].thr <= 10 * ThrUnit

\* C6 witness: fast motion has pushed the stored threshold above 8.0, so that
\* the next fast frame is cut back to the ceiling
C6_Witness ==
    /\ Foreground
    /\ \E i \in 1..Len(log) :
          /\ log[i].hand
          /\ log[i].adaptiveBefore > 8 * ThrUnit
          /\ log[i].thr = 9 * ThrUnit
          /\ log[i].detected > 0

\* the gateway returned without a successful arbitration
NoSuccessfulResponse ==
    \/ arb.outcome \in {"unavailable", "throw", "unparsable"}
    \/ arb.outcome = "json" /\ arb.response = Missing

\* the result is a submitted candidate of the highest confidence
IsHighestCandidate(r, candidates) ==
    /\ \E i \in 1..Len(candidates) :
          candidates[i].name = r.name /\ candidates[i].confidence = r.confidence
    /\ \A i \in 1..Len(candidates) : candidates[i].confidence <= r.confidence

PalmFist == <<[name |-> "Palm", confidence |-> 80], [name |-> "fist", confidence |-> 79]>>
FistPalm == <<[name |-> "fist", confidence |-> 79], [name |-> "Palm", confidence |-> 80]>>

\* C7: without a successful arbitration (service unavailable, call throws,
\* response unreadable) the gateway returns the highest-confidence candidate;
\* for {Palm 8.0, fist 7.9} that is Palm in either order of submission
C7_FallbackIsHighest ==
    (arb.pc = "done" /\ NoSuccessfulResponse)
    => /\ IsHighestCandidate(arb.result, arb.candidates)
       /\ ~arb.result.aiEnhanced
       /\ arb.candidates \in {PalmFist, FistPalm} => arb.result.name = "Palm"

\* C7 witness: the call threw with the stronger candidate listed second
C7_Witness ==
    /\ arb.pc = "done"
    /\ arb.outcome = "throw"
    /\ arb.candidates = FistPalm
    /\ arb.result.name = "Palm"

\* the service named no submitted candidate (names compare without case)
NamesNoCandidate ==
    /\ arb.outcome = "json" /\ arb.response # Missing
    /\ \A i \in 1..Len(arb.candidates) :
          toLowerCase(arb.candidates[i].name) # toLowerCase(arb.response)

\* C8: whatever the service answers, the gateway returns the name of a
\* submitted candidate, and an answer naming none of them yields the
\* highest-confidence candidate
C8_ResultIsCandidate ==
    arb.pc = "done"
    => /\ \E i \in 1..Len(arb.candidates) : arb.candidates[i].name = arb.result.name
       /\ NamesNoCandidate =>
              (IsHighestCandidate(arb.result, arb.candidates) /\ ~arb.result.aiEnhanced)

\* C8 witness: the service answered a name nobody submitted
C8_Witness ==
    /\ arb.pc = "done"
    /\ arb.response = "wave"
    /\ NamesNoCandidate
    /\ Len(arb.candidates) >= 2
    /\ arb.result.name = "Palm"

\* C9: every call of the gateway eventually returns
C9_EventuallyReturns == <>(arb.pc = "done")

\* C10: a frame whose two best candidates are in the near-tie band and were
\* not swapped by the stability comparison is settled by a call to the gateway
C10_NearTieDefersToGateway ==
    Foreground =>
        ((\E i \in 1..Len(log) : log[i].nearTie /\ ~log[i].swapped)
         => arbitrationCalls >= 1)

\* the resolver has ranked a frame that scored thumbs_up 8.0, thumbs_down 7.6
BandRanked ==
    /\ resolver.pc = "done"
    /\ Len(resolver.sorted) = 2
    /\ resolver.sorted[1] = [name |-> "thumbs_up", score |-> 80]
    /\ resolver.sorted[2] = [name |-> "thumbs_down", score |-> 76]

\* variance(a) < variance(b) for non-empty histories
VarianceLess(a, b) ==
    VarianceN2(a) * Len(b) * Len(b) < VarianceN2(b) * Len(a) * Len(a)

\* C11 as stated: with scores 8.0 and 7.6, a second candidate whose history has
\* strictly lower variance than the first's is selected
C11_LowerVarianceSelectsSecond ==
    (BandRanked /\ VarianceLess(resolver.hist["thumbs_down"],
                                resolver.hist["thumbs_up"]))
    => resolver.ranked[1].name = "thumbs_down"

\* C11: with scores 8.0 and 7.6 the second candidate is selected exactly when
\* its stability 1 / (stdDev + 0.01), 0 below three samples, is more than 1.5
\* times the first's
C11_MoreStableSelectsSecond ==
    BandRanked
    => (resolver.ranked[1].name = "thumbs_down"
        <=> calculateGestureStability_exceeds(resolver.hist["thumbs_down"],
                                              resolver.hist["thumbs_up"]))

\* C11 witness: the second candidate, of lower variance, has been selected
C11_Witness ==
    /\ BandRanked
    /\ VarianceLess(resolver.hist["thumbs_down"], resolver.hist["thumbs_up"])
    /\ resolver.ranked[1].name = "thumbs_down"

\* the resolver has ranked a frame with two or more candidates
Ranked == resolver.pc = "done" /\ Len(resolver.sorted) >= 2

\* the second-ranked candidate's stability is more than 1.5 times the first's
SecondSteadier ==
    calculateGestureStability_exceeds(resolver.hist[resolver.sorted[2].name],
                                      resolver.hist[resolver.sorted[1].name])

\* the resolver's winner is the second of the ranking by raw score
Swapped ==
    /\ resolver.ranked[1] = resolver.sorted[2]
    /\ resolver.ranked[2] = resolver.sorted[1]

\* C19 as stated: the top two are swapped if and only if
\* second.score >= 0.9 * first.score and stability(second) > 1.5 *
\* stability(first); otherwise the highest raw score wins
C19_SwapIffInclusiveBand ==
    Ranked =>
        IF /\ resolver.sorted[2].score * 10 >= resolver.sorted[1].score * 9
           /\ SecondSteadier
        THEN Swapped
        ELSE resolver.ranked = resolver.sorted

\* C19: the top two are swapped if and only if second.score > 0.9 *
\* first.score, the edge of the band excluded, and stability(second) > 1.5 *
\* stability(first); otherwise the highest raw score wins
C19_SwapIffStrictBand ==
    Ranked =>
        IF /\ resolver.sorted[2].score * 10 > resolver.sorted[1].score * 9
           /\ SecondSteadier
        THEN Swapped
        ELSE resolver.ranked = resolver.sorted

\* C19 witness: on the edge of the band (8.0 and 7.2) the steadier second
\* candidate has not been preferred
C19_Witness ==
    /\ Ranked
    /\ resolver.sorted[1].score = 80 /\ resolver.sorted[2].score = 72
    /\ SecondSteadier
    /\ resolver.ranked = resolver.sorted

\* the table the running detector consults
SequenceTable == IF Foreground THEN knownSequences ELSE bgKnownSequences

\* emissions i and i + 1 are the pattern of entry p of the table
IsPatternPair(i, p) ==
    /\ i + 1 <= Len(emissions)
    /\ <<emissions[i].name, emissions[i + 1].name>> = SequenceTable[p].pattern

Spacing(i) == emissions[i + 1].timestamp - emissions[i].timestamp

Reported(action) == \E k \in 1..Len(sequenceActions) : sequenceActions[k] = action

\* the foreground sequence window still holds the entry pushed at time ts
InWindow(ts) == \E k \in 1..Len(gestureSequence) : gestureSequence[k].timestamp = ts

\* C12: in the foreground detector, once two consecutive emissions that form a
\* pattern of the table, the second within 3000 ms of the first, have left the
\* sequence window, the pattern's combo action has been reported
C12_ComboNeverMissed ==
    Foreground =>
        \A i \in 1..(Len(emissions) - 1), p \in 1..Len(knownSequences) :
            (/\ IsPatternPair(i, p)
             /\ Spacing(i) <= 3000
             /\ ~InWindow(emissions[i + 1].timestamp))
            => Reported(knownSequences[p].action)

\* C13: in both detectors every combo action reported is that of two
\* consecutive emissions at most 3000 ms apart
C13_NoComboBeyondWindow ==
    \A k \in 1..Len(sequenceActions) :
        \E i \in 1..(Len(emissions) - 1), p \in 1..Len(SequenceTable) :
            /\ IsPatternPair(i, p)
            /\ SequenceTable[p].action = sequenceActions[k]
            /\ Spacing(i) <= 3000

\* C15: when start() completes on a service that has been stopped, the
\* pipeline state (last emitted name and timestamp, sequence window,
\* confidence histories, previous hand position and velocity) is as constructed
C15_FreshStateOnRestart ==
    [][(service'.starting < service.starting /\ service'.isRunning)
       => FreshPipeline(service')]_vars

\* C14: no gesture event is delivered and no action is executed for a session
\* that has been torn down: the background service's callback is not called
\* for a stopped session, the component executes nothing after its cleanup
C14_NothingAfterTeardown ==
    /\ \A i \in 1..Len(emissions) : ~emissions[i].stale
    /\ \A i \in 1..Len(detector.executed) : ~detector.executed[i].afterCleanup

\* C16: at most one detection of a session is awaiting its result
C16_OneFrameAtATime ==
    /\ Len(calls) <= 1
    /\ detector.inFlight <= 1

\* frame k shows a hand again after no-hand frames, more than 500 ms after the
\* last frame that showed one
Reappears(k) ==
    /\ k > 1
    /\ log[k].hand
    /\ ~log[k - 1].hand
    /\ \E j \in 1..(k - 2) :
          /\ log[j].hand
          /\ \A m \in (j + 1)..(k - 1) : ~log[m].hand
          /\ log[k].now - log[j].now > 500

\* C17: the first frame in which the hand reappears after an absence longer
\* than the absence timeout has zero movement magnitude, wherever the hand is
C17_NoVelocityAfterAbsence ==
    \A k \in 1..Len(log) : Reappears(k) => log[k].magSq = 0

\* the endpoint answered without a successful arbitration: no client, or the
\* call or the reading of its answer failed
ServerFellBack ==
    /\ server.pc = "responded"
    /\ server.method \in {"unavailable", "error_fallback"}

\* C18: the endpoint answers every request, and when the arbitration service
\* is unavailable or its call fails the answer carries the highest-confidence
\* candidate of the submitted list
C18_FallbackHighestAndAnswered ==
    /\ server.pc # "unanswered"
    /\ (ServerFellBack /\ server.candidates # <<>>)
       => IsHighestCandidate(server.gesture, server.candidates)

\* the foreground detector's last frame detected a gesture with a frame
\* threshold other than the stored one, so the stored threshold was updated
ThresholdUpdated ==
    /\ Foreground
    /\ Len(log) > 0
    /\ log[Len(log)].detected > 0
    /\ log[Len(log)].adaptiveBefore # log[Len(log)].thr

\* C20: a frame that updates the adaptive threshold stores
\* 0.9 * (previous stored value) + 0.1 * (the frame's clamped threshold)
C20_HistoryWeightedSmoothing ==
    ThresholdUpdated
    => 10 * adaptiveThreshold
          = 9 * log[Len(log)].adaptiveBefore + log[Len(log)].thr

\* lastGesture as frame k of the foreground log left it
LastAfter(k) == IF k < Len(log) THEN log[k + 1].lastBefore ELSE lastGesture

\* frame j shows a hand, every frame between j and k shows none, and frame k
\* comes at most 500 ms after frame j
ShortGap(j, k) ==
    /\ j < k
    /\ log[j].hand
    /\ \A m \in (j + 1)..(k - 1) : ~log[m].hand
    /\ log[k].now - log[j].now <= 500

\* C21: in the foreground detector a no-hand frame at most 500 ms after the
\* last frame that showed a hand leaves lastGesture as it is, and a held
\* gesture seen again after a no-hand gap of at most 500 ms is not emitted again
C21_ShortAbsenceClearsNothing ==
    Foreground =>
        \A j \in 1..Len(log), k \in 1..Len(log) :
            ShortGap(j, k) =>
                /\ ~log[k].hand => LastAfter(k) = log[k].lastBefore
                /\ (/\ log[k].hand
                    /\ log[j].resolved # Null
                    /\ log[k].resolved = log[j].resolved
                    /\ LastAfter(j) = log[j].resolved)
                   => ~log[k].emitted

\* frame i of the foreground log resolved to a name other than lastGesture
\* less than the dwell interval after the last emission
Suppressed(i) ==
    /\ log[i].hand
    /\ log[i].resolved # Null
    /\ log[i].resolved # log[i].lastBefore
    /\ log[i].now - log[i].timeBefore < 350

\* C22: a frame of the foreground detector whose transition is suppressed
\* leaves lastGesture as it is and returns to the caller of detectGesture no
\* result that carries the new name
C22_SuppressedDeliversNothing ==
    Foreground =>
        \A i \in 1..Len(log) :
            Suppressed(i) =>
                /\ LastAfter(i) = log[i].lastBefore
                /\ ~log[i].emitted
                /\ log[i].ret # log[i].resolved

\* the sequence window of the running detector
Window == IF Foreground THEN gestureSequence ELSE service.gestureSequence

Histories == IF Foreground THEN gestureConfidenceHistory ELSE service.gestureConfidenceHistory

\* C24: after every frame the score of each gesture in the frame's candidate
\* map is the newest entry of that gesture's confidence history, and no history
\* holds more than its capacity (10 foreground, 5 background)
C24_EveryCandidateRecorded ==
    /\ \A g \in DOMAIN Histories : Len(Histories[g]) <= (IF Foreground THEN 10 ELSE 5)
    /\ Len(log) > 0 =>
          \A k \in 1..Len(log[Len(log)].candidates) :
              LET c == log[Len(log)].candidates[k]
              IN  /\ Histories[c.name] # <<>>
                  /\ Histories[c.name][Len(Histories[c.name])] = c.score

Background == session = "background"

\* the timestamps of the entries of s increase strictly
Increasing(s) == \A k \in 1..(Len(s) - 1) : s[k].timestamp < s[k + 1].timestamp

\* C25: in the background service, whatever the order in which overlapping
\* detectOnce invocations complete, lastGestureTimestamp is the timestamp of
\* the last emission and these only grow, the timestamps of the sequence
\* window increase strictly, and two successive emissions of different names
\* are more than 500 ms apart
C25_OverlapKeepsOrder ==
    Background =>
        /\ Increasing(emissions)
        /\ service.lastGestureTimestamp =
              (IF emissions = <<>> THEN 0 ELSE emissions[Len(emissions)].timestamp)
        /\ Increasing(service.gestureSequence)
        /\ \A k \in 1..(Len(emissions) - 1) :
              emissions[k].name # emissions[k + 1].name
              => emissions[k + 1].timestamp - emissions[k].timestamp > 500

\* C25 witness: of two overlapping invocations the later one was answered
\* first and emitted; the earlier one then resolved to another name and both
\* have returned
C25_Witness ==
    /\ Background
    /\ calls = <<>>
    /\ Len(log) = 2
    /\ log[1].now > log[2].now
    /\ log[1].resolved # Null /\ log[2].resolved # Null
    /\ log[1].resolved # log[2].resolved
    /\ Len(emissions) = 1
    /\ emissions[1].timestamp = log[1].now

\* C26: however start() calls interleave, the background service has at most
\* one detection interval, one worker and one camera stream, and once a stop()
\* has run with no start() pending none of them is left
C26_StartIdempotent ==
    Background =>
        /\ service.intervals <= 1
        /\ service.workers <= 1
        /\ service.streams <= 1
        /\ (~service.isRunning /\ service.starting = 0)
           => (service.intervals = 0 /\ service.workers = 0 /\ service.streams = 0)

\* C27: in the component, with detectGesture resolving on every tick to a
\* gesture that has an action and is not the displayed one, the debounce timer
\* eventually fires and the action is executed, in both detection modes
C27_DebounceEventuallyFires == <>(detector.pc = "executed")

\* C28: at most one authenticateVoice call is past the isAuthenticating guard,
\* and while one is, isAuthenticating is true, so that every further call is
\* rejected
C28_OneAuthenticationAtATime ==
    /\ voice.awaiting <= 1
    /\ voice.awaiting > 0 => voice.isAuthenticating

\* the histories of the two best candidates when their stability is computed
FirstHistory == resolver.hist[resolver.sorted[1].name]
SecondHistory == resolver.hist[resolver.sorted[2].name]

\* the two best candidates of the ranked frame are in the near-tie band
InBand == Ranked /\ NearTie(resolver.sorted[1], resolver.sorted[2])

\* C29: in a near-tie, when both of the two best candidates have fewer than 3
\* history samples the ranking by raw score stands, and when only the first
\* has fewer than 3 the second is preferred, whatever its variance
C29_FewSamplesStabilityZero ==
    InBand =>
        /\ (Len(FirstHistory) < 3 /\ Len(SecondHistory) < 3)
           => resolver.ranked = resolver.sorted
        /\ (Len(FirstHistory) < 3 /\ Len(SecondHistory) >= 3) => Swapped

\* C29 witness: the first candidate has 2 samples, the second has 3 or more
\* that differ, and the second has been preferred
C29_Witness ==
    /\ InBand
    /\ Len(FirstHistory) = 2
    /\ Len(SecondHistory) >= 3
    /\ VarianceN2(SecondHistory) > VarianceN2(FirstHistory)
    /\ Swapped

\* the step is a call of the foreground detectGesture on a frame without a hand
NoHandFrame ==
    /\ Foreground
    /\ Len(log') = Len(log) + 1
    /\ ~log'[Len(log')].hand

\* C30: a frame without a hand leaves adaptiveThreshold, the confidence
\* histories, previousHandPosition, handVelocity, lastGestureTime and the
\* gesture counters as they are; it can only clear lastGesture, empty the
\* sequence window and, when the window has expired, restart it at the frame's
\* time
C30_NoHandFrameEffect ==
    [][NoHandFrame =>
          /\ UNCHANGED <<adaptiveThreshold, gestureConfidenceHistory,
                         previousHandPosition, handVelocity, lastGestureTime,
                         gestureCounters>>
          /\ lastGesture' \in {lastGesture, Null}
          /\ gestureSequence' \in {gestureSequence, <<>>}
          /\ \/ gestureWindowStart' = gestureWindowStart
             \/ /\ clock' - gestureWindowStart > 3000
                /\ gestureWindowStart' = clock'
                /\ gestureSequence' = <<>>]_vars

\* C30 witness: after frames that showed a hand and emitted, a frame without a
\* hand found the window expired: it cleared lastGesture, emptied the window
\* and restarted it, and the anchor and the threshold are those of the last
\* frame with a hand
C30_Witness ==
    /\ Foreground
    /\ Len(log) >= 2
    /\ ~log[Len(log)].hand
    /\ log[Len(log)].lastBefore # Null
    /\ lastGesture = Null
    /\ gestureSequence = <<>>
    /\ gestureWindowStart = clock
    /\ previousHandPosition # NoPosition
    /\ adaptiveThreshold # (75 * ThrUnit) \div 10

====
